---- MODULE Spec2Model ----
(***************************************************************************)
(* Density control of the Gaussian-splatting model in src/run.py           *)
(* (SplatfactoModel and the training loop trainval).                        *)
(*                                                                         *)
(* Tensors are sequences indexed by primitive.  Values are abstracted to   *)
(* integer levels:                                                         *)
(*   scales     log-scale level, one unit = log(1.6) (the split shrink);   *)
(*              the three axes move together, the level is the max axis    *)
(*   opacities  sigmoid(opacity) in units of cull_alpha_thresh             *)
(*   radii      projected radius in pixels, max_2Dsize = radii / max(H,W)  *)
(*   means, quats, features_dc, features_rest   opaque integer tags        *)
(***************************************************************************)
EXTENDS Integers, Sequences, FiniteSets, TLC

\* ---------------------------------------------------------------- bounds
NumSeed == 4
MaxSteps == 9
MaxPoints == 6
MaxOpac == 3
MaxMoment == 1

\* ------------------------------------------------- configuration constants
cull_alpha_thresh == 1
cull_scale_thresh == 2
densify_grad_thresh == 1
densify_size_thresh == 1
n_split_samples == 2
cull_screen_size == 2
split_screen_size == 1
MeanStride == 100

last_size == <<2, 2>>

Fields == <<"means", "scales", "quats", "features_dc", "features_rest", "opacities">>

FieldSet == {Fields[i] : i \in 1..Len(Fields)}

\* Optional values: None, or Some(v) holding v
None == <<>>

Some(v) == <<v>>

Val(o) == o[1]

BaseConfig ==
    [warmup_length |-> 1, refine_every |-> 1, reset_alpha_every |-> 4,
     stop_split_at |-> 8, stop_screen_size_at |-> 8, num_train_data |-> 1,
     continue_cull_post_densification |-> TRUE,
     background_color |-> "random", rasterize_mode |-> "classic"]

\* refinement every second step, three training views
SlowConfig ==
    [BaseConfig EXCEPT !.refine_every = 2, !.reset_alpha_every = 4,
                       !.num_train_data = 3]

\* no culling past stop_split_at (the --bigmodel setting), earlier stop
FrozenConfig ==
    [BaseConfig EXCEPT !.continue_cull_post_densification = FALSE,
                       !.stop_split_at = 7, !.stop_screen_size_at = 7]

Configs == {BaseConfig, FrozenConfig, SlowConfig}

\* ----------------------------------------------------- tensor operations
Min(a, b) == IF a < b THEN a ELSE b

Max(a, b) == IF a > b THEN a ELSE b

Clip(x, lo, hi) == Max(lo, Min(x, hi))

Zeros(n) == [j \in 1..n |-> 0]

Ones(n) == [j \in 1..n |-> 1]

Falses(n) == [j \in 1..n |-> FALSE]

\* param[mask] for a boolean mask of the same length: the selected entries,
\* in index order
RECURSIVE MaskSelectFrom(_, _, _)
MaskSelectFrom(s, m, i) ==
    IF i > Len(s) THEN <<>>
    ELSE (IF m[i] THEN <<s[i]>> ELSE <<>>) \o MaskSelectFrom(s, m, i + 1)

MaskSelect(s, m) == MaskSelectFrom(s, m, 1)

MaskNot(m) == [j \in 1..Len(m) |-> ~m[j]]

MaskOr(a, b) == [j \in 1..Len(a) |-> a[j] \/ b[j]]

MaskAnd(a, b) == [j \in 1..Len(a) |-> a[j] /\ b[j]]

\* torch.where(mask)[0]
Where(m) == MaskSelect([j \in 1..Len(m) |-> j], m)

\* mask.sum()
MaskSum(m) == Len(Where(m))

\* tensor.repeat(n, 1): the whole tensor tiled n times along dim 0
Repeat(s, n) ==
    IF Len(s) = 0 THEN <<>>
    ELSE [j \in 1..(n * Len(s)) |-> s[((j - 1) % Len(s)) + 1]]

\* tensor[idcs] for an index tensor
IndexSelect(s, idcs) == [j \in 1..Len(idcs) |-> s[idcs[j]]]

Cat3(a, b, c) == a \o b \o c

VARIABLES config, it, step, pc, gauss_params, optimizers,
          xys_grad_norm, vis_counts, max_2Dsize, radii, grads, ev,
          init_args, outputs, param_gen, optim_param, ld, last_reset

vars == <<config, it, step, pc, gauss_params, optimizers,
          xys_grad_norm, vis_counts, max_2Dsize, radii, grads, ev,
          init_args, outputs, param_gen, optim_param, ld, last_reset>>

num_points == Len(gauss_params["means"])

\* ---------------------------------------------------------- construction
InitScales == {<<1, 3, 0, 3>>}

\* The arguments populate_modules reads: seed_points = (positions, colours),
\* given by their numbers of rows, or None; aabb or None; config.random_init;
\* config.num_random.  TrainvalArgs is the call made by trainval.
TrainvalArgs ==
    [seed_points |-> Some(<<NumSeed, NumSeed>>), aabb |-> None,
     random_init |-> FALSE, num_random |-> NumSeed]

\* self.seed_points is not None and not self.config.random_init
use_seed(a) == a.seed_points # None /\ ~a.random_init

\* the number of rows of means: the seed positions, or num_random samples
num_means(a) == IF use_seed(a) THEN Val(a.seed_points)[1] ELSE a.num_random

\* k_nearest_sklearn(means, 3) fits n_neighbors = k + 1 and raises when there
\* are fewer samples than that
KNeighbors == 3

knn_raises_never(a) == FALSE

knn_raises(a) == num_means(a) < KNeighbors + 1

\* the background_color modes populate_modules knows
KnownBackgrounds == {"random", "white", "black"}

\* populate_modules raises: the assert on aabb, the neighbour search, or the
\* ValueError on an unknown background_color
populate_raises(a) ==
    \/ ~use_seed(a) /\ a.aabb = None
    \/ knn_raises(a)
    \/ config.background_color \notin KnownBackgrounds

\* the number of rows of features_dc and features_rest: the seed colours when
\* there are any, else num_points
feature_rows(a) ==
    IF use_seed(a) /\ Val(a.seed_points)[2] > 0
    THEN Val(a.seed_points)[2]
    ELSE num_means(a)

\* populate_modules, then the six Adam optimizers of trainval (their state is
\* created by the first step).  Seed positions are the tags 1..n, sampled
\* positions the tags above 50.
populate_modules(a, sc) ==
    LET n == num_means(a)
        c == feature_rows(a)
    IN [f \in FieldSet |->
        CASE f = "means" -> [i \in 1..n |-> IF use_seed(a) THEN i ELSE 50 + i]
          [] f = "scales" -> [i \in 1..n |-> sc[((i - 1) % Len(sc)) + 1]]
          [] f = "quats" -> [i \in 1..n |-> 10 + i]
          [] f = "features_dc" -> [i \in 1..c |-> 20 + i]
          [] f = "features_rest" -> [i \in 1..c |-> 30 + i]
          [] f = "opacities" -> [i \in 1..n |-> cull_alpha_thresh]]

\* the Parameter object of field f: each replacement of the store's
\* Parameters (append, cull, load_state_dict) starts a new generation
get_gaussian_param_groups(g) == [f \in FieldSet |-> <<f, g>>]

NoLoad == [kind |-> "none", dict |-> None, strict |-> FALSE, pre_count |-> 0,
           step |-> -1]

NoState == [has_state |-> FALSE, exp_avg |-> <<>>, exp_avg_sq |-> <<>>]

\* last_reset is the step of the last opacity reset, -1 before the first
\* (history only, never read by the program).
\* Record of the last call of refinement_after: the values the call read and
\* the intermediate tensors it built (history only, never read by the program)
NoEvent ==
    [kind |-> "none", step |-> -1,
     pre |-> [f \in FieldSet |-> <<>>], pre_optim |-> [f \in FieldSet |-> NoState],
     high_grads |-> <<>>, splits |-> <<>>, dups |-> <<>>,
     dup_src |-> [f \in FieldSet |-> <<>>], cat |-> [f \in FieldSet |-> <<>>],
     cat_optim |-> [f \in FieldSet |-> NoState],
     m2d |-> None, extra |-> None, culls |-> None,
     reset |-> FALSE, pre_reset |-> <<>>, pre_reset_optim |-> [f \in FieldSet |-> NoState],
     pre_reset_params |-> [f \in FieldSet |-> <<>>]]

Init ==
    /\ config \in Configs
    /\ it = 0
    /\ step = 0
    /\ pc = "before"
    /\ init_args = TrainvalArgs
    /\ \E sc \in InitScales : gauss_params = populate_modules(init_args, sc)
    /\ optimizers = [f \in FieldSet |-> NoState]
    /\ param_gen = 0
    /\ optim_param = get_gaussian_param_groups(param_gen)
    /\ xys_grad_norm = None
    /\ vis_counts = None
    /\ max_2Dsize = None
    /\ radii = <<>>
    /\ grads = <<>>
    /\ outputs = None
    /\ ev = NoEvent
    /\ ld = NoLoad
    /\ last_reset = -1

\* ------------------------------------------------------- training loop
BeforeIteration_norender ==
    /\ pc = "before"
    /\ it < MaxSteps
    /\ step' = it
    /\ pc' = "optim"
    /\ ev' = NoEvent
    /\ UNCHANGED <<config, init_args, ld, last_reset, it, gauss_params, optimizers, xys_grad_norm,
                   vis_counts, max_2Dsize, radii, grads, outputs, param_gen,
                   optim_param>>

\* train_callback_before_iteration -> step_cb
BeforeIteration ==
    /\ pc = "before"
    /\ it < MaxSteps
    /\ step' = it
    /\ pc' = "render"
    /\ ev' = NoEvent
    /\ UNCHANGED <<config, init_args, ld, last_reset, it, gauss_params, optimizers, xys_grad_norm,
                   vis_counts, max_2Dsize, radii, grads, outputs, param_gen,
                   optim_param>>

LoopExit ==
    /\ pc = "before"
    /\ it >= MaxSteps
    /\ pc' = "done"
    /\ UNCHANGED <<config, init_args, ld, last_reset, it, step, gauss_params, optimizers, xys_grad_norm,
                   vis_counts, max_2Dsize, radii, grads, ev, outputs, param_gen,
                   optim_param>>

\* The projection of the renderer: which primitives are visible, with what
\* radius, and the norm of the gradient that backward leaves in xys.grad
VisiblePatterns(n) ==
    {[i \in 1..n |-> i = 1], [i \in 1..n |-> i % 2 = 0], [i \in 1..n |-> FALSE]}

\* <<radius, gradient norm>> of the visible primitives
Projections == {<<2, 2>>, <<4, 2>>, <<6, 0>>}

RECURSIVE SumTo(_, _)
SumTo(s, i) == IF i = 0 THEN 0 ELSE s[i] + SumTo(s, i - 1)

RadiiSum == SumTo(radii, Len(radii))

\* the pixels of an H x W image, each holding v
Image(v) == [p \in 1..(last_size[1] * last_size[2]) |-> v]

\* background colours drawn by torch.rand(3) in training
Backgrounds == {0, 1}

\* the colour the rasterizer composites where primitives cover the pixel
Rendered == 2

\* depth = background.new_ones(H, W, 1) * 10
ZeroVisDepth == 10

\* get_outputs returns before isect_tiles and rasterize_to_pixels when
\* radii.sum() == 0; otherwise the composited image, depth_im None in
\* training.  The rasterizer blends the background into rgb: the composited
\* image is one colour here and the background drawn for it is not kept.
render(r, background) ==
    IF SumTo(r, Len(r)) = 0
    THEN [rgb |-> Image(background), depth |-> Some(Image(ZeroVisDepth)),
          accumulation |-> Image(0), background |-> Some(background),
          rasterized |-> FALSE]
    ELSE [rgb |-> Image(Rendered), depth |-> None,
          accumulation |-> Image(1), background |-> None,
          rasterized |-> TRUE]

\* the rasterize_mode values get_outputs knows
KnownRasterizeModes == {"antialiased", "classic"}

\* get_outputs, returning its dict.  The rasterize_mode is looked at only
\* after the return for radii.sum() == 0.
get_outputs ==
    /\ pc = "render"
    /\ \E vis \in VisiblePatterns(num_points), rg \in Projections :
          /\ radii' = [i \in 1..num_points |-> IF vis[i] THEN rg[1] ELSE 0]
          /\ grads' = [i \in 1..num_points |-> IF vis[i] THEN rg[2] ELSE 0]
          /\ SumTo(radii', Len(radii')) > 0 =>
                config.rasterize_mode \in KnownRasterizeModes
          /\ \E background \in Backgrounds :
                outputs' = Some(render(radii', background))
    /\ pc' = "optim"
    /\ UNCHANGED <<config, init_args, ld, last_reset, it, step, gauss_params, optimizers, xys_grad_norm,
                   vis_counts, max_2Dsize, ev, param_gen, optim_param>>

\* get_outputs raises ValueError("Unknown rasterize_mode"): self.radii is
\* set by the projection, nothing is returned
GetOutputsRaises ==
    /\ pc = "render"
    /\ config.rasterize_mode \notin KnownRasterizeModes
    /\ \E vis \in VisiblePatterns(num_points), rg \in Projections :
          /\ radii' = [i \in 1..num_points |-> IF vis[i] THEN rg[1] ELSE 0]
          /\ SumTo(radii', Len(radii')) > 0
    /\ outputs' = None
    /\ pc' = "raised"
    /\ UNCHANGED <<config, init_args, ld, last_reset, it, step, gauss_params, optimizers, xys_grad_norm,
                   vis_counts, max_2Dsize, grads, ev, param_gen, optim_param>>

\* radii.sum() == 0: get_outputs returned the background image, the loss has
\* no graph and loss.backward() raises
BackwardRaises ==
    /\ pc = "optim"
    /\ RadiiSum = 0
    /\ pc' = "raised"
    /\ UNCHANGED <<config, init_args, ld, last_reset, it, step, gauss_params, optimizers, xys_grad_norm,
                   vis_counts, max_2Dsize, radii, grads, ev, outputs, param_gen,
                   optim_param>>

\* One Adam step of one optimizer: state created on the first step, moments
\* move where the primitive received gradient
AdamStep(o, n) ==
    LET m1 == IF o.has_state THEN o.exp_avg ELSE Zeros(n)
        m2 == IF o.has_state THEN o.exp_avg_sq ELSE Zeros(n)
    IN [has_state |-> TRUE,
        exp_avg |-> [i \in 1..n |-> IF radii[i] > 0 THEN Min(m1[i] + 1, MaxMoment) ELSE m1[i]],
        exp_avg_sq |-> [i \in 1..n |-> IF radii[i] > 0 THEN 1 ELSE m2[i]]]

\* The change of the opacity level of the primitives that received gradient
ParamUpdates == {1, -1}

\* the optimizer of field f holds the store's current Parameter of f
holds_current(f) == optim_param[f] = get_gaussian_param_groups(param_gen)[f]

\* zero_grad, loss.backward(), optimizer.step() for the six optimizers.
\* backward leaves the gradients on the store's Parameters; Adam skips a
\* parameter whose grad is None, which is the case of an optimizer that
\* holds a Parameter the store has replaced.  outputs is not read again.
OptimizerStep ==
    /\ pc = "optim"
    /\ RadiiSum > 0
    /\ \E d \in ParamUpdates :
          gauss_params' =
             [gauss_params EXCEPT
                !["opacities"] = [i \in 1..num_points |->
                    IF radii[i] > 0 /\ holds_current("opacities")
                    THEN Clip(@[i] + d, 0, MaxOpac) ELSE @[i]]]
    /\ optimizers' = [f \in FieldSet |->
                         IF holds_current(f) THEN AdamStep(optimizers[f], num_points)
                         ELSE optimizers[f]]
    /\ outputs' = None
    /\ pc' = "after"
    /\ UNCHANGED <<config, init_args, ld, last_reset, it, step, xys_grad_norm, vis_counts, max_2Dsize,
                   radii, grads, ev, param_gen, optim_param>>

MaxHW == Max(last_size[1], last_size[2])

\* after_train indexes the statistics with visible_mask, a mask of the
\* store's length: a buffer of another length makes the indexing raise
stats_fit ==
    /\ xys_grad_norm # None =>
          /\ Len(Val(xys_grad_norm)) = Len(radii)
          /\ Len(Val(vis_counts)) = Len(radii)
    /\ max_2Dsize # None => Len(Val(max_2Dsize)) = Len(radii)

AfterTrain_overwrite ==
    /\ pc = "after"
    /\ step < config.stop_split_at => stats_fit
    /\ IF step >= config.stop_split_at
       THEN UNCHANGED <<xys_grad_norm, vis_counts, max_2Dsize>>
       ELSE LET visible_mask == [i \in 1..Len(radii) |-> radii[i] > 0]
                m2d == IF max_2Dsize = None THEN Zeros(Len(radii)) ELSE Val(max_2Dsize)
            IN /\ IF xys_grad_norm = None
                  THEN /\ xys_grad_norm' = Some(grads)
                       /\ vis_counts' = Some(Ones(Len(grads)))
                  ELSE /\ vis_counts' = Some([i \in 1..Len(Val(vis_counts)) |->
                              IF visible_mask[i] THEN Val(vis_counts)[i] + 1
                              ELSE Val(vis_counts)[i]])
                       /\ xys_grad_norm' = Some([i \in 1..Len(Val(xys_grad_norm)) |->
                              IF visible_mask[i] THEN grads[i] + Val(xys_grad_norm)[i]
                              ELSE Val(xys_grad_norm)[i]])
               /\ max_2Dsize' = Some([i \in 1..Len(m2d) |->
                      IF visible_mask[i] THEN radii[i] \div MaxHW ELSE m2d[i]])
    /\ radii' = <<>>
    /\ grads' = <<>>
    /\ pc' = "refine"
    /\ UNCHANGED <<config, init_args, ld, last_reset, it, step, gauss_params, optimizers, ev,
                   outputs, param_gen, optim_param>>

AfterTrain_maskedinit ==
    /\ pc = "after"
    /\ step < config.stop_split_at => stats_fit
    /\ IF step >= config.stop_split_at
       THEN UNCHANGED <<xys_grad_norm, vis_counts, max_2Dsize>>
       ELSE LET visible_mask == [i \in 1..Len(radii) |-> radii[i] > 0]
                m2d == IF max_2Dsize = None THEN Zeros(Len(radii)) ELSE Val(max_2Dsize)
            IN /\ IF xys_grad_norm = None
                  THEN /\ xys_grad_norm' = Some(grads)
                       /\ vis_counts' = Some([i \in 1..Len(grads) |->
                              IF visible_mask[i] THEN 1 ELSE 0])
                  ELSE /\ vis_counts' = Some([i \in 1..Len(Val(vis_counts)) |->
                              IF visible_mask[i] THEN Val(vis_counts)[i] + 1
                              ELSE Val(vis_counts)[i]])
                       /\ xys_grad_norm' = Some([i \in 1..Len(Val(xys_grad_norm)) |->
                              IF visible_mask[i] THEN grads[i] + Val(xys_grad_norm)[i]
                              ELSE Val(xys_grad_norm)[i]])
               /\ max_2Dsize' = Some([i \in 1..Len(m2d) |->
                      IF visible_mask[i] THEN Max(m2d[i], radii[i] \div MaxHW) ELSE m2d[i]])
    /\ radii' = <<>>
    /\ grads' = <<>>
    /\ pc' = "refine"
    /\ UNCHANGED <<config, init_args, ld, last_reset, it, step, gauss_params, optimizers, ev,
                   outputs, param_gen, optim_param>>

AfterTrain_nostats ==
    /\ pc = "after"
    /\ step < config.stop_split_at => stats_fit
    /\ UNCHANGED <<xys_grad_norm, vis_counts, max_2Dsize>>
    /\ radii' = <<>>
    /\ grads' = <<>>
    /\ pc' = "refine"
    /\ UNCHANGED <<config, init_args, ld, last_reset, it, step, gauss_params, optimizers, ev,
                   outputs, param_gen, optim_param>>

\* after_train.  radii and xys.grad are the outputs of this iteration's
\* render; nothing reads them after after_train, so they are dropped here
AfterTrain ==
    /\ pc = "after"
    /\ step < config.stop_split_at => stats_fit
    /\ IF step >= config.stop_split_at
       THEN UNCHANGED <<xys_grad_norm, vis_counts, max_2Dsize>>
       ELSE LET visible_mask == [i \in 1..Len(radii) |-> radii[i] > 0]
                m2d == IF max_2Dsize = None THEN Zeros(Len(radii)) ELSE Val(max_2Dsize)
            IN /\ IF xys_grad_norm = None
                  THEN /\ xys_grad_norm' = Some(grads)
                       /\ vis_counts' = Some(Ones(Len(grads)))
                  ELSE /\ vis_counts' = Some([i \in 1..Len(Val(vis_counts)) |->
                              IF visible_mask[i] THEN Val(vis_counts)[i] + 1
                              ELSE Val(vis_counts)[i]])
                       /\ xys_grad_norm' = Some([i \in 1..Len(Val(xys_grad_norm)) |->
                              IF visible_mask[i] THEN grads[i] + Val(xys_grad_norm)[i]
                              ELSE Val(xys_grad_norm)[i]])
               /\ max_2Dsize' = Some([i \in 1..Len(m2d) |->
                      IF visible_mask[i] THEN Max(m2d[i], radii[i] \div MaxHW) ELSE m2d[i]])
    /\ radii' = <<>>
    /\ grads' = <<>>
    /\ pc' = "refine"
    /\ UNCHANGED <<config, init_args, ld, last_reset, it, step, gauss_params, optimizers, ev,
                   outputs, param_gen, optim_param>>

\* after_train: the masked update of a statistics buffer whose length is not
\* the store's raises (IndexError)
AfterTrainRaises ==
    /\ pc = "after"
    /\ step < config.stop_split_at
    /\ ~stats_fit
    /\ pc' = "raised"
    /\ UNCHANGED <<config, init_args, ld, last_reset, it, step, gauss_params, optimizers,
                   xys_grad_norm, vis_counts, max_2Dsize, radii, grads, ev,
                   outputs, param_gen, optim_param>>

\* ------------------------------------------------------ optimizer surgery
\* zeros_like(t[idcs]).repeat(n, 1, ...)
ZeroRows(t, idcs, n) == Repeat(Zeros(Len(IndexSelect(t, idcs))), n)

dup_in_optim_once(o, dup_idcs, n) ==
    IF o.has_state
    THEN [o EXCEPT !.exp_avg = @ \o ZeroRows(@, dup_idcs, 1),
                   !.exp_avg_sq = @ \o ZeroRows(@, dup_idcs, 1)]
    ELSE o

dup_in_optim(o, dup_idcs, n) ==
    IF o.has_state
    THEN [o EXCEPT !.exp_avg = @ \o ZeroRows(@, dup_idcs, n),
                   !.exp_avg_sq = @ \o ZeroRows(@, dup_idcs, n)]
    ELSE o

dup_in_all_optim(opts, dup_idcs, n) ==
    [f \in FieldSet |-> dup_in_optim(opts[f], dup_idcs, n)]

remove_from_optim_head(o, deleted_mask) ==
    IF o.has_state
    THEN [o EXCEPT !.exp_avg = SubSeq(@, 1, Len(@) - MaskSum(deleted_mask)),
                   !.exp_avg_sq = SubSeq(@, 1, Len(@) - MaskSum(deleted_mask))]
    ELSE o

remove_from_optim(o, deleted_mask) ==
    IF o.has_state
    THEN [o EXCEPT !.exp_avg = MaskSelect(@, MaskNot(deleted_mask)),
                   !.exp_avg_sq = MaskSelect(@, MaskNot(deleted_mask))]
    ELSE o

remove_from_all_optim(opts, deleted_mask) ==
    [f \in FieldSet |-> remove_from_optim(opts[f], deleted_mask)]

\* ------------------------------------------------------ density controller
reset_interval == config.reset_alpha_every * config.refine_every

cull_post_always == step >= config.stop_split_at

\* refinement_after: the elif that keeps culling past stop_split_at
cull_post ==
    /\ step >= config.stop_split_at
    /\ config.continue_cull_post_densification

in_warmup_lt == step < config.warmup_length

\* refinement_after: if self.step <= self.config.warmup_length: return
in_warmup == step <= config.warmup_length

do_densification_noviews ==
    /\ step < config.stop_split_at
    /\ step % reset_interval > config.refine_every

do_densification_ge ==
    /\ step < config.stop_split_at
    /\ step % reset_interval >= config.num_train_data + config.refine_every

do_densification ==
    /\ step < config.stop_split_at
    /\ step % reset_interval > config.num_train_data + config.refine_every

split_gaussians_interleave(gp, split_mask, samps, samples) ==
    LET sel(f) == MaskSelect(gp[f], split_mask)
        par_means == Repeat(sel("means"), samps)
    IN [out |->
          [f \in FieldSet |->
             CASE f = "means" ->
                    [j \in 1..Len(par_means) |-> samples[j] * MeanStride + par_means[j]]
               [] f = "scales" ->
                    Repeat([j \in 1..Len(sel("scales")) |-> sel("scales")[j] - 1], samps)
               [] OTHER ->
                    [j \in 1..(samps * Len(sel(f))) |-> sel(f)[((j - 1) \div samps) + 1]]],
        scales |->
          [i \in 1..Len(gp["scales"]) |->
             IF split_mask[i] THEN gp["scales"][i] - 1 ELSE gp["scales"][i]]]

\* split_gaussians: the new entries (out) and self.scales after the in-place
\* shrink of the selected parents; samples are the randn draws, one per child
split_gaussians(gp, split_mask, samps, samples) ==
    LET sel(f) == MaskSelect(gp[f], split_mask)
        par_means == Repeat(sel("means"), samps)
    IN [out |->
          [f \in FieldSet |->
             CASE f = "means" ->
                    [j \in 1..Len(par_means) |-> samples[j] * MeanStride + par_means[j]]
               [] f = "scales" ->
                    Repeat([j \in 1..Len(sel("scales")) |-> sel("scales")[j] - 1], samps)
               [] OTHER -> Repeat(sel(f), samps)],
        scales |->
          [i \in 1..Len(gp["scales"]) |->
             IF split_mask[i] THEN gp["scales"][i] - 1 ELSE gp["scales"][i]]]

dup_gaussians_wrongfield(gp, dup_mask) ==
    [f \in FieldSet |->
        MaskSelect(gp[IF f = "features_rest" THEN "features_dc" ELSE f], dup_mask)]

dup_gaussians(gp, dup_mask) == [f \in FieldSet |-> MaskSelect(gp[f], dup_mask)]

cull_gaussians_noextra(gp, m2d, st, extra_cull_mask) ==
    LET n == Len(gp["opacities"])
        below == [i \in 1..n |-> gp["opacities"][i] < cull_alpha_thresh]
        toobigs0 == [i \in 1..n |-> gp["scales"][i] > cull_scale_thresh]
        toobigs == IF st < config.stop_screen_size_at
                   THEN MaskOr(toobigs0, [i \in 1..n |-> Val(m2d)[i] > cull_screen_size])
                   ELSE toobigs0
    IN IF st > config.refine_every * config.reset_alpha_every
       THEN MaskOr(below, toobigs)
       ELSE below

cull_gaussians_noguard(gp, m2d, st, extra_cull_mask) ==
    LET n == Len(gp["opacities"])
        below == [i \in 1..n |-> gp["opacities"][i] < cull_alpha_thresh]
        culls1 == IF extra_cull_mask = None THEN below
                  ELSE MaskOr(below, Val(extra_cull_mask))
        toobigs0 == [i \in 1..n |-> gp["scales"][i] > cull_scale_thresh]
        toobigs == IF st < config.stop_screen_size_at
                   THEN MaskOr(toobigs0, [i \in 1..n |-> Val(m2d)[i] > cull_screen_size])
                   ELSE toobigs0
    IN MaskOr(culls1, toobigs)

\* cull_gaussians: the mask it computes and returns
cull_gaussians(gp, m2d, st, extra_cull_mask) ==
    LET n == Len(gp["opacities"])
        below == [i \in 1..n |-> gp["opacities"][i] < cull_alpha_thresh]
        culls1 == IF extra_cull_mask = None THEN below
                  ELSE MaskOr(below, Val(extra_cull_mask))
        toobigs0 == [i \in 1..n |-> gp["scales"][i] > cull_scale_thresh]
        toobigs == IF st < config.stop_screen_size_at
                   THEN MaskOr(toobigs0, [i \in 1..n |-> Val(m2d)[i] > cull_screen_size])
                   ELSE toobigs0
    IN IF st > config.refine_every * config.reset_alpha_every
       THEN MaskOr(culls1, toobigs)
       ELSE culls1

Reverse(t) == [j \in 1..Len(t) |-> t[Len(t) + 1 - j]]

compact_reversed(gp, culls) ==
    [f \in FieldSet |-> Reverse(MaskSelect(gp[f], MaskNot(culls)))]

\* for name, param in gauss_params.items(): gauss_params[name] = param[~culls]
compact(gp, culls) == [f \in FieldSet |-> MaskSelect(gp[f], MaskNot(culls))]

do_reset_late ==
    /\ step < config.stop_split_at
    /\ step % reset_interval = reset_interval - 1

\* refinement_after: the condition of the opacity reset
do_reset ==
    /\ step < config.stop_split_at
    /\ step % reset_interval = config.refine_every

reset_value == cull_alpha_thresh * 2

clamp_opacities_fill(op) == [i \in 1..Len(op) |-> reset_value]

\* torch.clamp(self.opacities.data, max=logit(reset_value))
clamp_opacities(op) == [i \in 1..Len(op) |-> Min(op[i], reset_value)]

zero_moments_avg_only(o) == [o EXCEPT !.exp_avg = Zeros(Len(@))]

\* param_state["exp_avg"] = zeros_like(...); param_state["exp_avg_sq"] = ...
zero_moments(o) ==
    [o EXCEPT !.exp_avg = Zeros(Len(@)), !.exp_avg_sq = Zeros(Len(@))]

FinishRefinement_keepstats(gp, opts, e) ==
    /\ gauss_params' =
          IF do_reset THEN [gp EXCEPT !["opacities"] = clamp_opacities(@)] ELSE gp
    /\ optimizers' =
          IF do_reset THEN [opts EXCEPT !["opacities"] = zero_moments(@)] ELSE opts
    /\ ev' = [e EXCEPT !.step = step, !.pre = gauss_params, !.pre_optim = optimizers,
                       !.reset = do_reset, !.pre_reset = gp["opacities"],
                       !.pre_reset_optim = opts, !.pre_reset_params = gp]
    /\ UNCHANGED <<xys_grad_norm, vis_counts, max_2Dsize>>
    /\ it' = it + 1
    /\ pc' = "before"
    /\ last_reset' = IF do_reset THEN step ELSE last_reset
    /\ UNCHANGED <<config, init_args, ld, step, radii, grads, outputs>>

\* The tail of refinement_after: opacity reset, then the statistics are
\* dropped; the loop goes to its next iteration
FinishRefinement(gp, opts, e) ==
    /\ gauss_params' =
          IF do_reset THEN [gp EXCEPT !["opacities"] = clamp_opacities(@)] ELSE gp
    /\ optimizers' =
          IF do_reset THEN [opts EXCEPT !["opacities"] = zero_moments(@)] ELSE opts
    /\ ev' = [e EXCEPT !.step = step, !.pre = gauss_params, !.pre_optim = optimizers,
                       !.reset = do_reset, !.pre_reset = gp["opacities"],
                       !.pre_reset_optim = opts, !.pre_reset_params = gp]
    /\ xys_grad_norm' = None
    /\ vis_counts' = None
    /\ max_2Dsize' = None
    /\ it' = it + 1
    /\ pc' = "before"
    /\ last_reset' = IF do_reset THEN step ELSE last_reset
    /\ UNCHANGED <<config, init_args, ld, step, radii, grads, outputs>>

SkipRefinement_resets ==
    /\ pc = "refine"
    /\ step % config.refine_every # 0
    /\ gauss_params' = [gauss_params EXCEPT !["opacities"] = clamp_opacities(@)]
    /\ it' = it + 1
    /\ pc' = "before"
    /\ UNCHANGED <<config, init_args, ld, last_reset, step, optimizers, xys_grad_norm,
                   vis_counts, max_2Dsize, radii, grads, ev, outputs, param_gen,
                   optim_param>>

\* train_callback_after_iteration: step % refine_every != 0
SkipRefinement ==
    /\ pc = "refine"
    /\ step % config.refine_every # 0
    /\ it' = it + 1
    /\ pc' = "before"
    /\ UNCHANGED <<config, init_args, ld, last_reset, step, gauss_params, optimizers, xys_grad_norm,
                   vis_counts, max_2Dsize, radii, grads, ev, outputs, param_gen,
                   optim_param>>

\* refinement_after: early return during warm-up
RefineWarmup ==
    /\ pc = "refine"
    /\ step % config.refine_every = 0
    /\ in_warmup
    /\ it' = it + 1
    /\ pc' = "before"
    /\ UNCHANGED <<config, init_args, ld, last_reset, step, gauss_params, optimizers, xys_grad_norm,
                   vis_counts, max_2Dsize, radii, grads, ev, outputs, param_gen,
                   optim_param>>

\* avg_grad_norm = (xys_grad_norm / vis_counts) * 0.5 * max(H, W), compared
\* with densify_grad_thresh (cross-multiplied, vis_counts > 0)
high_grads ==
    [i \in 1..Len(Val(xys_grad_norm)) |->
        Val(xys_grad_norm)[i] * MaxHW > 2 * densify_grad_thresh * Val(vis_counts)[i]]

splits(hg) ==
    LET big == [i \in 1..num_points |-> gauss_params["scales"][i] > densify_size_thresh]
        onscreen == [i \in 1..num_points |-> Val(max_2Dsize)[i] > split_screen_size]
    IN MaskAnd(IF step < config.stop_screen_size_at THEN MaskOr(big, onscreen) ELSE big,
               hg)

extend_max_2Dsize_twice(m, split_scales, dup_scales) ==
    Cat3(m, Zeros(Len(split_scales)), Zeros(2 * Len(dup_scales)))

\* append zeros to the max_2Dsize tensor, one per new primitive
extend_max_2Dsize(m, split_scales, dup_scales) ==
    Cat3(m, Zeros(Len(split_scales)), Zeros(Len(dup_scales)))

\* torch.randn for the children: the draws considered
RandnDraws(n) == {[j \in 1..n |-> (j + s) % 2] : s \in {0, 1}}

\* refinement_after: the densification branch (split, duplicate, append,
\* optimizer growth, cull of the split parents, optimizer shrink)
RefineDensify ==
    /\ pc = "refine"
    /\ step % config.refine_every = 0
    /\ ~in_warmup
    /\ do_densification
    /\ xys_grad_norm # None /\ vis_counts # None /\ max_2Dsize # None
    /\ num_points # 1
    /\ \E hg \in {high_grads} : \E spl \in {splits(hg)} :
       \E samples \in RandnDraws(n_split_samples * MaskSum(spl)) :
       \E sp \in {split_gaussians(gauss_params, spl, n_split_samples, samples)} :
       \E gp1 \in {[gauss_params EXCEPT !["scales"] = sp.scales]} :
       \E dups \in {MaskAnd([i \in 1..num_points |->
                                gp1["scales"][i] <= densify_size_thresh], hg)} :
       \E dup_params \in {dup_gaussians(gp1, dups)} :
       \E gp2 \in {[f \in FieldSet |-> Cat3(gp1[f], sp.out[f], dup_params[f])]} :
       \E m2d \in {Some(extend_max_2Dsize(Val(max_2Dsize), sp.out["scales"],
                                           dup_params["scales"]))} :
       \E opt1 \in {dup_in_all_optim(optimizers, Where(spl), n_split_samples)} :
       \E opt2 \in {dup_in_all_optim(opt1, Where(dups), 1)} :
       \E splits_mask \in {spl \o Falses(n_split_samples * MaskSum(spl) + MaskSum(dups))} :
       \E culls \in {cull_gaussians(gp2, m2d, step, Some(splits_mask))} :
       \E gp3 \in {compact(gp2, culls)} :
          /\ Len(gp3["means"]) <= MaxPoints
          /\ param_gen' = param_gen + 2
          /\ optim_param' = get_gaussian_param_groups(param_gen')
          /\ FinishRefinement(gp3, remove_from_all_optim(opt2, culls),
               [NoEvent EXCEPT !.kind = "densify", !.high_grads = hg,
                               !.splits = spl, !.dups = dups, !.dup_src = gp1,
                               !.cat = gp2, !.cat_optim = opt2, !.m2d = m2d,
                               !.extra = Some(splits_mask), !.culls = Some(culls)])

\* With a single primitive the .squeeze() calls make the masks 0-dim, the
\* masked index in split_gaussians gains a dimension and .repeat(samps, 1)
\* raises before anything is written
RefineDensifyRaises ==
    /\ pc = "refine"
    /\ step % config.refine_every = 0
    /\ ~in_warmup
    /\ do_densification
    /\ num_points = 1
    /\ pc' = "raised"
    /\ UNCHANGED <<config, init_args, ld, last_reset, it, step, gauss_params, optimizers, xys_grad_norm,
                   vis_counts, max_2Dsize, radii, grads, ev, outputs, param_gen,
                   optim_param>>

\* cull_gaussians: assert self.max_2Dsize is not None, reached when the size
\* criterion applies and st < stop_screen_size_at
cull_asserts(m2d, st) ==
    /\ st > config.refine_every * config.reset_alpha_every
    /\ st < config.stop_screen_size_at
    /\ m2d = None

RefineCull_stale ==
    /\ pc = "refine"
    /\ step % config.refine_every = 0
    /\ ~in_warmup
    /\ ~do_densification
    /\ cull_post
    /\ ~cull_asserts(max_2Dsize, step)
    /\ param_gen' = param_gen + 1
    /\ UNCHANGED optim_param
    /\ \E culls \in {cull_gaussians(gauss_params, max_2Dsize, step, None)} :
          FinishRefinement(compact(gauss_params, culls),
                           remove_from_all_optim(optimizers, culls),
                           [NoEvent EXCEPT !.kind = "cull", !.cat = gauss_params,
                                           !.cat_optim = optimizers, !.m2d = max_2Dsize,
                                           !.culls = Some(culls)])

\* refinement_after: past stop_split_at, culling only
RefineCull ==
    /\ pc = "refine"
    /\ step % config.refine_every = 0
    /\ ~in_warmup
    /\ ~do_densification
    /\ cull_post
    /\ ~cull_asserts(max_2Dsize, step)
    /\ param_gen' = param_gen + 1
    /\ optim_param' = get_gaussian_param_groups(param_gen')
    /\ \E culls \in {cull_gaussians(gauss_params, max_2Dsize, step, None)} :
          FinishRefinement(compact(gauss_params, culls),
                           remove_from_all_optim(optimizers, culls),
                           [NoEvent EXCEPT !.kind = "cull", !.cat = gauss_params,
                                           !.cat_optim = optimizers, !.m2d = max_2Dsize,
                                           !.culls = Some(culls)])

\* refinement_after: the cull past stop_split_at fails the assert of
\* cull_gaussians (AssertionError), before the store is written
RefineCullRaises ==
    /\ pc = "refine"
    /\ step % config.refine_every = 0
    /\ ~in_warmup
    /\ ~do_densification
    /\ cull_post
    /\ cull_asserts(max_2Dsize, step)
    /\ pc' = "raised"
    /\ UNCHANGED <<config, init_args, ld, last_reset, it, step, gauss_params, optimizers,
                   xys_grad_norm, vis_counts, max_2Dsize, radii, grads, ev, outputs,
                   param_gen, optim_param>>

\* refinement_after: deleted_mask = None
RefineNoCull ==
    /\ pc = "refine"
    /\ step % config.refine_every = 0
    /\ ~in_warmup
    /\ ~do_densification
    /\ ~cull_post
    /\ UNCHANGED <<param_gen, optim_param>>
    /\ FinishRefinement(gauss_params, optimizers,
                        [NoEvent EXCEPT !.kind = "nocull", !.cat = gauss_params,
                                        !.cat_optim = optimizers])

Next ==
    \/ BeforeIteration
    \/ LoopExit
    \/ get_outputs
    \/ BackwardRaises
    \/ OptimizerStep
    \/ AfterTrain
    \/ SkipRefinement
    \/ RefineWarmup
    \/ RefineDensify
    \/ RefineDensifyRaises
    \/ RefineCull
    \/ RefineNoCull

Spec == Init /\ [][Next]_vars

\* ------------------------------------------- training, other orderings
\* the screen-size criterion outlives the densification phase; refinement
\* every second step
ScreenConfig ==
    [BaseConfig EXCEPT !.refine_every = 2, !.reset_alpha_every = 2,
                       !.stop_split_at = 6, !.stop_screen_size_at = 9]

\* no training view counted, no warm-up, an early stop
ZeroViewsConfig ==
    [BaseConfig EXCEPT !.num_train_data = 0, !.warmup_length = 0,
                       !.stop_split_at = 4, !.stop_screen_size_at = 4]

AnyConfigs == {ScreenConfig, ZeroViewsConfig}

InitAny ==
    /\ config \in AnyConfigs
    /\ it = 0
    /\ step = 0
    /\ pc = "before"
    /\ init_args = TrainvalArgs
    /\ \E sc \in InitScales : gauss_params = populate_modules(init_args, sc)
    /\ optimizers = [f \in FieldSet |-> NoState]
    /\ param_gen = 0
    /\ optim_param = get_gaussian_param_groups(param_gen)
    /\ xys_grad_norm = None
    /\ vis_counts = None
    /\ max_2Dsize = None
    /\ radii = <<>>
    /\ grads = <<>>
    /\ outputs = None
    /\ ev = NoEvent
    /\ ld = NoLoad
    /\ last_reset = -1

NextAny ==
    \/ Next
    \/ RefineCullRaises

SpecAny == InitAny /\ [][NextAny]_vars

\* ------------------------------------------------- construction, by inputs
\* numbers of seed positions and of seed colours
SeedCounts == {KNeighbors, NumSeed, NumSeed + 1}

ColorCounts == {0, NumSeed - 1, NumSeed, NumSeed + 1}

RandomCounts == {KNeighbors, NumSeed + 1}

InitInputs ==
    [seed_points : {None} \cup {Some(<<n, c>>) : n \in SeedCounts, c \in ColorCounts},
     aabb : {None, Some(<<0, 1>>)},
     random_init : BOOLEAN,
     num_random : RandomCounts]

\* background_color settings given to the constructor
BackgroundColors == {"random", "black", "grey"}

\* before SplatfactoModel(...) has run: nothing exists yet
InitConstruct ==
    /\ config \in {[BaseConfig EXCEPT !.background_color = b] : b \in BackgroundColors}
    /\ init_args \in InitInputs
    /\ it = 0
    /\ step = 0
    /\ pc = "construct"
    /\ gauss_params = [f \in FieldSet |-> <<>>]
    /\ optimizers = [f \in FieldSet |-> NoState]
    /\ param_gen = 0
    /\ optim_param = get_gaussian_param_groups(param_gen)
    /\ xys_grad_norm = None
    /\ vis_counts = None
    /\ max_2Dsize = None
    /\ radii = <<>>
    /\ grads = <<>>
    /\ outputs = None
    /\ ev = NoEvent
    /\ ld = NoLoad
    /\ last_reset = -1

\* SplatfactoModel.__init__ -> populate_modules, returning the model
SplatfactoModelInit ==
    /\ pc = "construct"
    /\ ~populate_raises(init_args)
    /\ \E sc \in InitScales : gauss_params' = populate_modules(init_args, sc)
    /\ pc' = "constructed"
    /\ UNCHANGED <<config, init_args, ld, last_reset, it, step, optimizers, xys_grad_norm,
                   vis_counts, max_2Dsize, radii, grads, ev, outputs, param_gen,
                   optim_param>>

\* populate_modules raises: no model is produced
SplatfactoModelInitRaises ==
    /\ pc = "construct"
    /\ populate_raises(init_args)
    /\ pc' = "raised"
    /\ UNCHANGED <<config, init_args, ld, last_reset, it, step, gauss_params, optimizers,
                   xys_grad_norm, vis_counts, max_2Dsize, radii, grads, ev,
                   outputs, param_gen, optim_param>>

NextInit ==
    \/ SplatfactoModelInit
    \/ SplatfactoModelInitRaises

SpecInit == InitConstruct /\ [][NextInit]_vars

\* ------------------------------------------------- rendering, by settings
\* rasterize_mode settings of the rendered model
RasterizeModes == {"classic", "antialiased", "blurred"}

\* the numbers of primitives of the rendered models
RenderCounts == {NumSeed, NumSeed + 1, NumSeed + 2}

\* a constructed model in training mode, about to be rendered at some step
InitRender ==
    /\ config \in {[BaseConfig EXCEPT !.rasterize_mode = m] : m \in RasterizeModes}
    /\ init_args \in {[TrainvalArgs EXCEPT !.seed_points = Some(<<n, n>>)] :
                         n \in RenderCounts}
    /\ it \in 0..(MaxSteps - 1)
    /\ step = it
    /\ pc = "render"
    /\ \E sc \in InitScales : gauss_params = populate_modules(init_args, sc)
    /\ optimizers = [f \in FieldSet |-> NoState]
    /\ param_gen = 0
    /\ optim_param = get_gaussian_param_groups(param_gen)
    /\ xys_grad_norm = None
    /\ vis_counts = None
    /\ max_2Dsize = None
    /\ radii = <<>>
    /\ grads = <<>>
    /\ outputs = None
    /\ ev = NoEvent
    /\ ld = NoLoad
    /\ last_reset = -1

NextRender ==
    \/ get_outputs
    \/ GetOutputsRaises

SpecRender == InitRender /\ [][NextRender]_vars

\* ----------------------------------------------------------- checkpoints
\* primitive counts of the checkpoints, different from the live model's
CkptCounts == {NumSeed - 2, NumSeed + 1}

\* key formats: gauss_params.<name> (current) and bare <name> (legacy)
Formats == {"gauss_params", ""}

\* the steps at which the checkpoints were saved
SavedSteps == {2, 7}

\* the iterations before which the checkpoint is loaded
LoadIts == {1}

\* the six fields of a model of M primitives, as saved
CkptParams(M) ==
    [f \in FieldSet |->
        CASE f = "means" -> [i \in 1..M |-> 60 + i]
          [] f = "scales" -> [i \in 1..M |-> densify_size_thresh]
          [] f = "quats" -> [i \in 1..M |-> 70 + i]
          [] f = "features_dc" -> [i \in 1..M |-> 80 + i]
          [] f = "features_rest" -> [i \in 1..M |-> 90 + i]
          [] f = "opacities" -> [i \in 1..M |-> reset_value]]

\* a state dict: keys <<prefix, name>> for "prefix.name" (or bare "name")
StateDict(M, fmt) == [k \in {<<fmt, f>> : f \in FieldSet} |-> CkptParams(M)[k[2]]]

\* load_state_dict: if "means" in dict, dict["gauss_params.p"] = dict[p]
remap(d) ==
    IF <<"", "means">> \in DOMAIN d
    THEN [k \in DOMAIN d \cup {<<"gauss_params", f>> : f \in FieldSet} |->
             IF k[1] = "gauss_params" THEN d[<<"", k[2]>>] ELSE d[k]]
    ELSE d

\* self.gauss_params[name] = Parameter(zeros((newp,) + old_shape[1:]))
resize_params(gp, newp) == [f \in DOMAIN gp |-> Zeros(newp)]

\* Module.load_state_dict copies every tensor of the dict whose key names a
\* parameter of the module (shapes equal), whatever else the dict holds
copy_params(gp, d) ==
    [f \in DOMAIN gp |->
        IF <<"gauss_params", f>> \in DOMAIN d
           /\ Len(d[<<"gauss_params", f>>]) = Len(gp[f])
        THEN d[<<"gauss_params", f>>] ELSE gp[f]]

\* Module.load_state_dict: the keys of the dict that name nothing in the
\* module; with strict (the default) they make it raise after the copy
unexpected_keys(d) == {k \in DOMAIN d : k[1] # "gauss_params"}

LoadedStep == 30000

\* load_state_dict(dict, strict=...) on the live model, between iterations
load_state_dict ==
    /\ pc = "before"
    /\ it \in LoadIts
    /\ ld.kind = "none"
    /\ \E M \in CkptCounts, fmt \in Formats, strict \in BOOLEAN, s \in SavedSteps :
       \E d \in {remap(StateDict(M, fmt))} :
       \E newp \in {Len(d[<<"gauss_params", "means">>])} :
          /\ step' = LoadedStep
          /\ gauss_params' = copy_params(resize_params(gauss_params, newp), d)
          /\ param_gen' = param_gen + 1
          /\ pc' = IF strict /\ unexpected_keys(d) # {} THEN "raised" ELSE "before"
          /\ ld' = [kind |-> IF strict /\ unexpected_keys(d) # {} THEN "raised"
                              ELSE "loaded",
                    dict |-> Some(StateDict(M, fmt)), strict |-> strict,
                    pre_count |-> num_points, step |-> s]
    /\ UNCHANGED <<config, init_args, it, optimizers, xys_grad_norm, vis_counts,
                   max_2Dsize, radii, grads, ev, outputs, optim_param, last_reset>>

NextLoad ==
    \/ Next
    \/ load_state_dict
    \/ AfterTrainRaises

SpecLoad == Init /\ [][NextLoad]_vars

\* ------------------------------------------------------------ properties
Aligned ==
    \A f \in FieldSet :
       /\ Len(gauss_params[f]) = num_points
       /\ optimizers[f].has_state =>
             /\ Len(optimizers[f].exp_avg) = num_points
             /\ Len(optimizers[f].exp_avg_sq) = num_points

\* C1: at the start of every iteration, and whenever a render or an
\* optimizer step can run, the six store fields and the exp_avg / exp_avg_sq
\* of the six optimizers all have the same leading dimension N.
C1_IndexAlignment == pc \in {"before", "render", "optim"} => Aligned

\* a densification that appended and culled has just completed, followed by
\* a state in which the next iteration starts
C1_Witness ==
    /\ pc = "before"
    /\ ev.kind = "densify"
    /\ Len(ev.cat["means"]) > Len(ev.pre["means"])
    /\ num_points < Len(ev.cat["means"])
    /\ num_points # Len(ev.pre["means"])
    /\ optimizers["means"].has_state

\* C2: in every densification event no primitive is in both the splits mask
\* and the dups mask.
C2_SplitDupDisjoint ==
    ev.kind = "densify" =>
       \A i \in 1..Len(ev.splits) : ~(ev.splits[i] /\ ev.dups[i])

\* C3: while step <= warmup_length refinement_after does nothing: the
\* primitive count is the initial one and no refinement event has happened.
C3_WarmupInvariant ==
    step <= config.warmup_length => (num_points = NumSeed /\ ev.kind = "none")

\* refinement_after has returned at step = warmup_length although there are
\* accumulated statistics and a primitive below the opacity threshold
C3_Witness ==
    /\ pc = "before"
    /\ step = config.warmup_length
    /\ it = step + 1
    /\ step % config.refine_every = 0
    /\ xys_grad_norm # None
    /\ \E i \in 1..num_points : gauss_params["opacities"][i] < cull_alpha_thresh

\* C4: at a refinement event with step >= stop_split_at nothing is split or
\* duplicated, cull_gaussians runs iff continue_cull_post_densification, and
\* with the flag off the primitive count never changes again.
C4_PostStop ==
    /\ [](ev.kind # "none" /\ ev.step >= config.stop_split_at =>
            /\ ev.kind \in {"cull", "nocull"}
            /\ ev.kind = "cull" <=> config.continue_cull_post_densification
            /\ Len(ev.cat["means"]) = Len(ev.pre["means"]))
    /\ [][step' >= config.stop_split_at =>
            /\ num_points' <= num_points
            /\ ~config.continue_cull_post_densification => num_points' = num_points]_vars

\* a refinement past stop_split_at with the flag off, while a primitive is
\* below the opacity threshold
C4_Witness ==
    /\ pc = "before"
    /\ ev.kind = "nocull"
    /\ ev.step >= config.stop_split_at
    /\ ~config.continue_cull_post_densification
    /\ \E i \in 1..num_points : gauss_params["opacities"][i] < cull_alpha_thresh

\* C5: a densification event that selects k primitives for split appends
\* exactly k * n_split_samples children and culls exactly those k parents
\* through the extra mask; with d duplicates and the cull mask culls the
\* count becomes N + k * n_split_samples + d - |culls|, which is
\* N + k * (n_split_samples - 1) + d when only the parents are culled.
C5_SplitConservation ==
    ev.kind = "densify" =>
       LET k == MaskSum(ev.splits)
           d == MaskSum(ev.dups)
           n0 == Len(ev.pre["means"])
       IN /\ Len(ev.cat["means"]) = n0 + k * n_split_samples + d
          /\ Len(Val(ev.extra)) = Len(ev.cat["means"])
          /\ \A i \in 1..Len(Val(ev.extra)) :
                Val(ev.extra)[i] <=> (i <= n0 /\ ev.splits[i])
          /\ \A i \in 1..n0 : ev.splits[i] => Val(ev.culls)[i]
          /\ num_points = Len(ev.cat["means"]) - MaskSum(Val(ev.culls))
          /\ Val(ev.culls) = Val(ev.extra) =>
                num_points = n0 + k * (n_split_samples - 1) + d

\* a densification that split two primitives and culled only the parents
C5_Witness ==
    /\ ev.kind = "densify"
    /\ MaskSum(ev.splits) = 2
    /\ MaskSum(ev.dups) = 0
    /\ Val(ev.culls) = Val(ev.extra)
    /\ num_points = Len(ev.pre["means"]) + 2 * (n_split_samples - 1)

\* the store as cull_gaussians left it (the opacity reset comes after it)
AfterCull(f) == IF f = "opacities" THEN ev.pre_reset ELSE gauss_params[f]

\* the index of entry i of src among the entries that mask does not remove
Rank(mask, i) == Cardinality({j \in 1..i : ~mask[j]})

\* dst is src without the entries of mask, the others in their order
IsCompaction(src, mask, dst) ==
    /\ Len(dst) = Cardinality({i \in 1..Len(src) : ~mask[i]})
    /\ \A i \in 1..Len(src) : ~mask[i] => dst[Rank(mask, i)] = src[i]

\* C6 (as claimed): a densification event that selects k primitives for
\* duplication appends exactly k entries, each a verbatim copy of all six
\* fields of its original, and every duplicated original is still in the
\* store after the event (net change +k).
C6_DuplicateConservation ==
    ev.kind = "densify" =>
       LET d == MaskSum(ev.dups)
           n0 == Len(ev.pre["means"])
           first == n0 + n_split_samples * MaskSum(ev.splits)
           idcs == Where(ev.dups)
       IN /\ Len(ev.cat["means"]) = first + d
          /\ \A f \in FieldSet : \A j \in 1..d :
                ev.cat[f][first + j] = ev.pre[f][idcs[j]]
          /\ \A i \in 1..n0 : ev.dups[i] => ~Val(ev.culls)[i]

\* C6 (amended): the event appends exactly k entries, each a verbatim copy
\* of all six fields of its original as they are when dup_gaussians runs
\* (the original's own fields unless it was also selected for split, then
\* with the shrunk scale); a duplicated original that the cull mask of the
\* event does not contain is still in the store after the event, unchanged.
C6_DuplicateAmended ==
    ev.kind = "densify" =>
       LET d == MaskSum(ev.dups)
           n0 == Len(ev.pre["means"])
           first == n0 + n_split_samples * MaskSum(ev.splits)
           idcs == Where(ev.dups)
           c == Val(ev.culls)
       IN /\ Len(ev.cat["means"]) = first + d
          /\ \A f \in FieldSet : \A j \in 1..d :
                /\ ev.cat[f][first + j] = ev.dup_src[f][idcs[j]]
                /\ ~ev.splits[idcs[j]] => ev.cat[f][first + j] = ev.pre[f][idcs[j]]
                /\ (ev.splits[idcs[j]] /\ f # "scales") =>
                      ev.cat[f][first + j] = ev.pre[f][idcs[j]]
          /\ \A i \in 1..n0 : (ev.dups[i] /\ ~c[i]) =>
                \A f \in FieldSet : AfterCull(f)[Rank(c, i)] = ev.dup_src[f][i]

\* a duplication whose original and copy both survive, next to one whose
\* original is culled
C6_Witness ==
    /\ ev.kind = "densify"
    /\ \E i \in 1..Len(ev.dups) : ev.dups[i] /\ ~ev.splits[i] /\ ~Val(ev.culls)[i]
    /\ num_points > Len(ev.pre["means"])

\* C7: cull_gaussians removes exactly the primitives of the mask it
\* returns, from all six fields, and the survivors keep their order.
C7_CullConservation ==
    ev.culls # None =>
       LET c == Val(ev.culls)
       IN /\ Len(c) = Len(ev.cat["means"])
          /\ num_points = Len(ev.cat["means"]) - MaskSum(c)
          /\ \A f \in FieldSet : IsCompaction(ev.cat[f], c, AfterCull(f))

\* a cull that removed a primitive in front of two survivors
C7_Witness ==
    /\ ev.kind = "cull"
    /\ Val(ev.culls)[1]
    /\ num_points >= 2
    /\ gauss_params["means"][1] # gauss_params["means"][2]
    /\ MaskSum(Val(ev.culls)) < Len(Val(ev.culls))

\* the optimizer state as the structural part of the event left it
AfterSurgery(f) == ev.pre_reset_optim[f]

TooBig(i) ==
    \/ ev.cat["scales"][i] > cull_scale_thresh
    \/ /\ ev.step < config.stop_screen_size_at
       /\ Val(ev.m2d)[i] > cull_screen_size

\* C9: the mask of cull_gaussians is (opacity < cull_alpha_thresh) OR the
\* extra mask OR the size criterion, the size criterion only when
\* step > reset_alpha_every * refine_every; a primitive failing only the
\* scale test is removed past that guard and kept at or before it.
C9_CullMask ==
    ev.culls # None =>
       LET c == Val(ev.culls)
           guard == ev.step > config.reset_alpha_every * config.refine_every
       IN \A i \in 1..Len(ev.cat["means"]) :
             /\ c[i] <=>
                   \/ ev.cat["opacities"][i] < cull_alpha_thresh
                   \/ ev.extra # None /\ Val(ev.extra)[i]
                   \/ guard /\ TooBig(i)
             /\ (guard /\ ev.cat["scales"][i] > cull_scale_thresh) => c[i]
             /\ ev.cat["opacities"][i] < cull_alpha_thresh => c[i]
             /\ (/\ ~guard
                 /\ ev.cat["opacities"][i] >= cull_alpha_thresh
                 /\ ~(ev.extra # None /\ Val(ev.extra)[i])) => ~c[i]

\* past the size guard, one primitive failing only the alpha test and one
\* failing only the scale test are both culled, a third one survives
C9_Witness ==
    /\ ev.culls # None
    /\ ev.step > config.reset_alpha_every * config.refine_every
    /\ \E i, j \in 1..Len(ev.cat["means"]) :
          /\ ev.cat["opacities"][i] < cull_alpha_thresh
          /\ ev.cat["scales"][i] <= cull_scale_thresh
          /\ ev.cat["opacities"][j] >= cull_alpha_thresh
          /\ ev.cat["scales"][j] > cull_scale_thresh
          /\ ev.extra # None => (~Val(ev.extra)[i] /\ ~Val(ev.extra)[j])
          /\ Val(ev.culls)[i] /\ Val(ev.culls)[j]
    /\ num_points > 0

\* C10: a refinement event changes opacities only when step < stop_split_at
\* and step % (reset_alpha_every * refine_every) = refine_every; then every
\* opacity becomes min(old, ceiling), and a second reset changes nothing.
C10_OpacityReset ==
    ev.kind # "none" =>
       /\ ev.reset <=> (/\ ev.step < config.stop_split_at
                        /\ ev.step % reset_interval = config.refine_every)
       /\ Len(gauss_params["opacities"]) = Len(ev.pre_reset)
       /\ ~ev.reset => gauss_params["opacities"] = ev.pre_reset
       /\ ev.reset =>
             /\ \A i \in 1..Len(ev.pre_reset) :
                   /\ gauss_params["opacities"][i] = Min(ev.pre_reset[i], reset_value)
                   /\ ev.pre_reset[i] <= reset_value =>
                         gauss_params["opacities"][i] = ev.pre_reset[i]
             /\ clamp_opacities(gauss_params["opacities"]) = gauss_params["opacities"]

\* a reset that lowered one opacity and left a lower one alone
C10_Witness ==
    /\ ev.reset
    /\ \E i, j \in 1..Len(ev.pre_reset) :
          /\ ev.pre_reset[i] > reset_value
          /\ gauss_params["opacities"][i] = reset_value
          /\ ev.pre_reset[j] < reset_value
          /\ gauss_params["opacities"][j] = ev.pre_reset[j]

AllZero(t) == \A i \in 1..Len(t) : t[i] = 0

OtherFields == FieldSet \ {"opacities"}

\* C11: at every opacity reset the exp_avg and exp_avg_sq of the opacities
\* optimizer are zero for all primitives after the event, while the moments
\* of the other five groups and the five other store fields are what they
\* were just before the reset.
C11_ResetMoments ==
    ev.reset =>
       /\ optimizers["opacities"].has_state
       /\ Len(optimizers["opacities"].exp_avg) = num_points
       /\ Len(optimizers["opacities"].exp_avg_sq) = num_points
       /\ AllZero(optimizers["opacities"].exp_avg)
       /\ AllZero(optimizers["opacities"].exp_avg_sq)
       /\ \A f \in OtherFields :
             /\ optimizers[f] = ev.pre_reset_optim[f]
             /\ gauss_params[f] = ev.pre_reset_params[f]

\* a reset that found non-zero first and second opacity moments, and left
\* non-zero moments in another group
C11_Witness ==
    /\ ev.reset
    /\ \E i \in 1..num_points :
          /\ ev.pre_reset_optim["opacities"].exp_avg[i] > 0
          /\ ev.pre_reset_optim["opacities"].exp_avg_sq[i] > 0
          /\ optimizers["means"].exp_avg[i] > 0
          /\ optimizers["opacities"].exp_avg[i] = 0

StatsCleared == xys_grad_norm = None /\ vis_counts = None /\ max_2Dsize = None

\* C12: every call of refinement_after at a step that is a multiple of
\* refine_every and past warmup_length, whatever it did (densify, cull only,
\* reset only, nothing), returns with xys_grad_norm, vis_counts and
\* max_2Dsize all None.
C12_StatsCleared ==
    /\ [](ev.kind # "none" => StatsCleared)
    /\ [][(/\ pc = "refine"
            /\ step % config.refine_every = 0
            /\ step > config.warmup_length
            /\ pc' = "before") => (ev'.kind # "none" /\ StatsCleared')]_vars

\* a refinement in the guard window that changed nothing and reset nothing,
\* at a step where after_train had filled the buffers, has cleared them
C12_Witness ==
    /\ pc = "before"
    /\ ev.kind = "nocull"
    /\ ~ev.reset
    /\ ev.step > config.warmup_length
    /\ ev.step < config.stop_split_at
    /\ StatsCleared

\* C13: whenever after_train or the densification decision reads a
\* statistics buffer that is not None its length is the primitive count;
\* the max_2Dsize that cull_gaussians reads in a densification has the
\* length of the grown store, with a zero for every appended primitive.
C13_StatsTrackSize ==
    /\ pc \in {"after", "refine"} =>
          /\ xys_grad_norm # None => Len(Val(xys_grad_norm)) = num_points
          /\ vis_counts # None => Len(Val(vis_counts)) = num_points
          /\ max_2Dsize # None => Len(Val(max_2Dsize)) = num_points
    /\ ev.kind = "densify" =>
          /\ Len(ev.high_grads) = Len(ev.pre["means"])
          /\ Len(Val(ev.m2d)) = Len(ev.cat["means"])
          /\ \A i \in 1..Len(Val(ev.m2d)) :
                i > Len(ev.pre["means"]) => Val(ev.m2d)[i] = 0
    /\ (ev.kind = "cull" /\ ev.m2d # None) =>
          Len(Val(ev.m2d)) = Len(ev.cat["means"])

\* a densification past the size guard, where cull_gaussians reads
\* max_2Dsize, that appended split children and a duplicate
C13_Witness ==
    /\ ev.kind = "densify"
    /\ ev.step > config.refine_every * config.reset_alpha_every
    /\ ev.step < config.stop_screen_size_at
    /\ MaskSum(ev.splits) > 0
    /\ MaskSum(ev.dups) > 0
    /\ \E i \in 1..Len(ev.pre["means"]) : Val(ev.m2d)[i] > 0

\* C14: a completed refinement event at step s, warmup_length < s <
\* stop_split_at, ran split/duplicate iff s mod (reset_alpha_every *
\* refine_every) > num_train_data + refine_every; in the guard window
\* nothing is appended or culled and the count is unchanged.
C14_ActiveSchedule ==
    (ev.kind # "none" /\ ev.step > config.warmup_length
                      /\ ev.step < config.stop_split_at) =>
       LET window == ev.step % (config.reset_alpha_every * config.refine_every)
                        <= config.num_train_data + config.refine_every
       IN /\ ev.kind = "densify" <=> ~window
          /\ window =>
                /\ ev.kind = "nocull"
                /\ ev.culls = None
                /\ num_points = Len(ev.pre["means"])
                /\ \A f \in OtherFields : gauss_params[f] = ev.pre[f]

\* a guard-window refinement that left a primitive below the opacity
\* threshold in the store, and a later one that densified
C14_Witness ==
    /\ ev.kind = "nocull"
    /\ ev.step > config.warmup_length
    /\ ev.step < config.stop_split_at
    /\ ev.step % (config.reset_alpha_every * config.refine_every)
          = config.num_train_data + config.refine_every
    /\ \E i \in 1..num_points : gauss_params["opacities"][i] < cull_alpha_thresh

\* the tensor a checkpoint dict holds for field f, in either key format
CkptValue(d, f) ==
    IF <<"gauss_params", f>> \in DOMAIN d THEN d[<<"gauss_params", f>>] ELSE d[<<"", f>>]

\* load_state_dict has just been called (the loop has not moved on)
JustLoaded == ld.kind # "none" /\ it \in LoadIts /\ pc \in {"before", "raised"}

\* C15: load_state_dict of a checkpoint of M primitives into a model of
\* N # M primitives returns with primitive count M and every field equal to
\* the checkpoint's tensor, for the gauss_params.<name> key format and for
\* the bare <name> key format alike.
C15_CheckpointRoundTrip ==
    (JustLoaded /\ ld.pre_count # Len(CkptValue(Val(ld.dict), "means"))) =>
       /\ ld.kind = "loaded"
       /\ num_points = Len(CkptValue(Val(ld.dict), "means"))
       /\ \A f \in FieldSet : gauss_params[f] = CkptValue(Val(ld.dict), f)

\* C16: after a checkpoint saved at step s is loaded, the model's step is s.
C16_StepRestored ==
    (JustLoaded /\ ld.kind = "loaded") => step = ld.step

\* C17: an operation that changes the primitive count resizes every
\* optimizer state in the same operation or raises, and no optimizer step
\* runs while an optimizer's state length differs from the primitive count
\* or an optimizer holds a Parameter that is not the store's.
C17_OptimizerLockstep ==
    /\ [](pc = "optim" =>
            \A f \in FieldSet :
               /\ holds_current(f)
               /\ optimizers[f].has_state =>
                     /\ Len(optimizers[f].exp_avg) = num_points
                     /\ Len(optimizers[f].exp_avg_sq) = num_points)
    /\ [][num_points' # num_points =>
            \/ pc' = "raised"
            \/ \A f \in FieldSet :
                  optimizers'[f].has_state =>
                     /\ Len(optimizers'[f].exp_avg) = num_points'
                     /\ Len(optimizers'[f].exp_avg_sq) = num_points']_vars

\* C18: a constructed model has, with seed points and random_init false, as
\* many primitives as seed positions, means equal to the seed positions and
\* that leading dimension in all six fields, whatever the number of seed
\* colours; with random sampling it has num_random rows in all six fields.
C18_InitAlignment ==
    pc = "constructed" =>
       /\ (init_args.seed_points # None /\ ~init_args.random_init) =>
             /\ num_points = Val(init_args.seed_points)[1]
             /\ gauss_params["means"] = [i \in 1..Val(init_args.seed_points)[1] |-> i]
             /\ \A f \in FieldSet : Len(gauss_params[f]) = num_points
       /\ (init_args.seed_points = None \/ init_args.random_init) =>
             \A f \in FieldSet : Len(gauss_params[f]) = init_args.num_random

\* C19: construction raises when seed points are absent or random_init is
\* true and no aabb is given, and returns a model whenever seed points are
\* given with random_init false.
C19_InitFails ==
    /\ ((init_args.seed_points = None \/ init_args.random_init)
          /\ init_args.aabb = None) => pc # "constructed"
    /\ (init_args.seed_points # None /\ ~init_args.random_init) => pc # "raised"

\* the positions the model would be built from are too few for the search
\* of the 3 nearest neighbours
TooFewPositions ==
    IF init_args.seed_points # None /\ ~init_args.random_init
    THEN Val(init_args.seed_points)[1] < 4
    ELSE init_args.num_random < 4

\* C19 (amended): with a known background_color, construction raises
\* exactly when there is no position source (seed points absent or
\* random_init true, and no aabb) or the positions are fewer than 4; with at
\* least 4 seed positions and random_init false it returns a model.
C19_InitFailsAmended ==
    LET NoSource == (init_args.seed_points = None \/ init_args.random_init)
                       /\ init_args.aabb = None
    IN config.background_color \in {"random", "white", "black"} =>
       /\ pc = "raised" => (NoSource \/ TooFewPositions)
       /\ pc = "constructed" => (~NoSource /\ ~TooFewPositions)
       /\ (pc = "construct" /\ ~NoSource /\ ~TooFewPositions) => ENABLED SplatfactoModelInit

\* a model built from at least 4 seed positions and as many seed colours,
\* with random_init false and no aabb
C19_Witness ==
    /\ pc = "constructed"
    /\ init_args.seed_points # None
    /\ ~init_args.random_init
    /\ init_args.aabb = None
    /\ num_points >= 4
    /\ \A f \in FieldSet : Len(gauss_params[f]) = num_points

\* C20: when every projected radius is zero get_outputs returns, without
\* rasterizing, rgb = background, depth = 10 and accumulation = 0 at every
\* pixel, and the training iteration goes on to the gradient step and the
\* statistics update without raising.
C20_ZeroVisibility ==
    /\ []((pc = "optim" /\ RadiiSum = 0) =>
            /\ outputs # None
            /\ ~Val(outputs).rasterized
            /\ Val(outputs).background # None
            /\ Val(outputs).rgb = Image(Val(Val(outputs).background))
            /\ Val(outputs).depth = Some(Image(10))
            /\ Val(outputs).accumulation = Image(0))
    /\ [][(pc = "optim" /\ RadiiSum = 0) => pc' = "after"]_vars

\* C21: with a rasterize_mode that is neither "classic" nor "antialiased"
\* every call of get_outputs raises and returns no image, however many
\* primitives are visible; with an unknown background_color the constructor
\* raises.
C21_UnknownModes ==
    /\ (config.rasterize_mode \notin {"classic", "antialiased"}
           /\ pc \in {"optim", "raised"}) =>
          (pc = "raised" /\ outputs = None)
    /\ config.background_color \notin {"random", "white", "black"} =>
          pc # "constructed"

\* the successive positions of the training loop within one iteration, with
\* the exits by an exception and at the end of the loop
LoopOrder ==
    {<<"before", "render">>, <<"render", "optim">>, <<"optim", "after">>,
     <<"after", "refine">>, <<"refine", "before">>,
     <<"optim", "raised">>, <<"refine", "raised">>, <<"before", "done">>}

\* C22: each iteration runs, in this order, the step-counter update, the
\* render, the loss and gradient step, the statistics update and then, only
\* when step % refine_every = 0, the refinement; the statistics update of
\* iteration t precedes its refinement, which completes before the render of
\* iteration t + 1.
C22_IterationOrder ==
    [][/\ pc' # pc => <<pc, pc'>> \in LoopOrder
       /\ pc' = "render" => (step' = it /\ it' = it)
       /\ outputs' # outputs => (pc = "render" \/ pc = "optim")
       /\ (pc = "render" /\ pc' = "optim") => (outputs' # None /\ step' = it)
       /\ <<xys_grad_norm, vis_counts, max_2Dsize>>' # <<xys_grad_norm, vis_counts, max_2Dsize>>
             => (pc = "after" \/ pc = "refine")
       /\ (pc = "after" /\ step < config.stop_split_at /\ pc' = "refine")
             => (xys_grad_norm' # None /\ vis_counts' # None /\ max_2Dsize' # None)
       /\ (ev' # ev /\ ev'.kind # "none")
             => /\ pc = "refine"
                /\ step = it
                /\ step % config.refine_every = 0
                /\ ev'.step = it
                /\ it' = it + 1
                /\ pc' = "before"
       /\ it' # it => (pc = "refine" /\ it' = it + 1)]_vars

\* the refinement of iteration t has densified and the loop stands before
\* iteration t + 1
C22_Witness ==
    /\ pc = "before"
    /\ ev.kind = "densify"
    /\ it = ev.step + 1
    /\ it < MaxSteps

\* C23: the density controller changes the primitive count, the fields of the
\* store and the optimizer moments only at steps s with
\* s % refine_every = 0 and s > warmup_length; at every other step it leaves
\* the store and the optimizer states as they are.
C23_RefinementCadence ==
    /\ [](ev.kind # "none" =>
            (ev.step % config.refine_every = 0 /\ ev.step > config.warmup_length))
    /\ [][(pc = "refine"
             /\ ~(step % config.refine_every = 0 /\ step > config.warmup_length))
           => UNCHANGED <<gauss_params, optimizers, param_gen>>]_vars

\* a step past the warm-up that is not a multiple of refine_every has gone
\* by with a primitive below the opacity threshold and one above the reset
\* ceiling still in the store
C23_Witness ==
    /\ pc = "before"
    /\ it = step + 1
    /\ step > config.warmup_length
    /\ step % config.refine_every # 0
    /\ \E i \in 1..num_points : gauss_params["opacities"][i] < cull_alpha_thresh
    /\ \E i \in 1..num_points : gauss_params["opacities"][i] > reset_value

\* C24: a primitive is selected for split only if its average gradient
\* exceeds densify_grad_thresh and its scale exceeds densify_size_thresh or
\* (before stop_screen_size_at) its screen footprint exceeds
\* split_screen_size; it is selected for duplication only if its average
\* gradient exceeds the threshold and its scale, as it was when the split
\* decision was taken, is at most densify_size_thresh; a primitive whose
\* average gradient does not exceed the threshold is neither.
C24_GradientGating ==
    ev.kind = "densify" =>
       \A i \in 1..Len(ev.splits) :
          /\ ev.splits[i] =>
                /\ ev.high_grads[i]
                /\ \/ ev.pre["scales"][i] > densify_size_thresh
                   \/ /\ ev.step < config.stop_screen_size_at
                      /\ Val(ev.m2d)[i] > split_screen_size
          /\ ev.dups[i] =>
                /\ ev.high_grads[i]
                /\ ev.pre["scales"][i] <= densify_size_thresh
          /\ ~ev.high_grads[i] => (~ev.splits[i] /\ ~ev.dups[i])

\* the index, in the concatenated store of a densification, of the copy
\* appended for the duplicated primitive i
DupCopy(i) ==
    Len(ev.splits) + n_split_samples * MaskSum(ev.splits)
       + Cardinality({j \in 1..i : ev.dups[j]})

\* C25: after a densification no primitive selected for split remains other
\* than as its n_split_samples children (neither the parent nor a copy of
\* it), and every primitive selected only for duplication appears exactly
\* twice (the original and one copy).
C25_SplitReplacesDupKeeps ==
    ev.kind = "densify" =>
       \A i \in 1..Len(ev.splits) :
          /\ ev.splits[i] =>
                /\ Val(ev.culls)[i]
                /\ ev.dups[i] => Val(ev.culls)[DupCopy(i)]
          /\ (ev.dups[i] /\ ~ev.splits[i]) =>
                /\ ~Val(ev.culls)[i]
                /\ ~Val(ev.culls)[DupCopy(i)]

\* the index, in the store before the split, of the j-th selected parent
Parent(j) == Where(ev.splits)[j]

\* the index, in the concatenated store, of the m-th child (m from 0) of the
\* j-th selected parent, k parents being selected
Child(j, m, k) == Len(ev.splits) + m * k + j

\* C26: each child of a split carries its parent's features_dc,
\* features_rest, opacity and quats unchanged, and the children of the j-th
\* selected parent are the returned entries j, j + k, j + 2k, ... in every
\* field: the means are the parent's mean plus the sampled offset and the
\* scales the parent's scale shrunk once.
C26_ChildInheritance ==
    ev.kind = "densify" =>
       LET k == MaskSum(ev.splits)
       IN \A j \in 1..k : \A m \in 0..(n_split_samples - 1) :
             /\ \A f \in {"features_dc", "features_rest", "opacities", "quats"} :
                   ev.cat[f][Child(j, m, k)] = ev.pre[f][Parent(j)]
             /\ ev.cat["means"][Child(j, m, k)] - ev.pre["means"][Parent(j)]
                   \in {0, MeanStride}
             /\ ev.cat["scales"][Child(j, m, k)] = ev.pre["scales"][Parent(j)] - 1

\* a densification that split two parents with different rotations
C26_Witness ==
    /\ ev.kind = "densify"
    /\ MaskSum(ev.splits) >= 2
    /\ ev.pre["quats"][Parent(1)] # ev.pre["quats"][Parent(2)]
    /\ num_points >= n_split_samples * 2

\* C27: at every refinement event with warmup_length < step < stop_split_at
\* cull_gaussians is run and the primitives matching the cull criteria are
\* removed, also in the guard window after a reset where split and duplicate
\* are not performed; where they are performed the cull removes the split
\* parents.  The opacity criterion of the cull is the one looked at: no
\* primitive below cull_alpha_thresh is left by the event (ev.pre_reset is
\* the opacities the event leaves, before the opacity reset).
C27_PruneEveryEvent ==
    (ev.kind # "none" /\ ev.step > config.warmup_length
        /\ ev.step < config.stop_split_at) =>
       /\ \A i \in 1..Len(ev.pre_reset) : ev.pre_reset[i] >= cull_alpha_thresh
       /\ ev.kind = "densify" =>
             \A i \in 1..Len(ev.splits) : ev.splits[i] => Val(ev.culls)[i]

\* C28: within an accumulation window every after_train call adds 1 to the
\* visibility counter and the gradient norm to the gradient sum of exactly
\* the primitives whose radius is nonzero, and leaves the counter and the
\* sum of the others unchanged, the first call of the window included
\* (counters and sums start from 0): the counter is the number of
\* iterations in which the primitive was visible.
C28_StatsVisibleOnly ==
    [][(pc = "after" /\ pc' = "refine" /\ step < config.stop_split_at) =>
          LET count0(i) == IF vis_counts = None THEN 0 ELSE Val(vis_counts)[i]
              sum0(i) == IF xys_grad_norm = None THEN 0 ELSE Val(xys_grad_norm)[i]
          IN /\ vis_counts' # None /\ xys_grad_norm' # None
             /\ Len(Val(vis_counts')) = Len(radii)
             /\ Len(Val(xys_grad_norm')) = Len(radii)
             /\ \A i \in 1..Len(radii) :
                   /\ radii[i] > 0 =>
                         /\ Val(vis_counts')[i] = count0(i) + 1
                         /\ Val(xys_grad_norm')[i] = sum0(i) + grads[i]
                   /\ radii[i] = 0 =>
                         /\ Val(vis_counts')[i] = count0(i)
                         /\ Val(xys_grad_norm')[i] = sum0(i)]_vars

\* C29: within an accumulation window every after_train call leaves each
\* max_2Dsize entry at least as large as before, sets the entry of a visible
\* primitive to the larger of its old value and radius / max(H, W), and
\* leaves the entry of a primitive that is not visible unchanged, entries
\* starting from 0: the entry is the maximum over the visible iterations.
C29_MaxSizeMonotone ==
    [][(pc = "after" /\ pc' = "refine" /\ step < config.stop_split_at) =>
          LET old(i) == IF max_2Dsize = None THEN 0 ELSE Val(max_2Dsize)[i]
          IN /\ max_2Dsize' # None
             /\ Len(Val(max_2Dsize')) = Len(radii)
             /\ \A i \in 1..Len(radii) :
                   /\ Val(max_2Dsize')[i] >= old(i)
                   /\ radii[i] > 0 =>
                         Val(max_2Dsize')[i] * Max(last_size[1], last_size[2])
                            = Max(old(i) * Max(last_size[1], last_size[2]), radii[i])
                   /\ radii[i] = 0 => Val(max_2Dsize')[i] = old(i)]_vars

\* after at least two after_train calls of one window: a primitive seen
\* twice holds the largest size and another primitive holds 0
C29_Witness ==
    /\ pc = "refine"
    /\ step < config.stop_split_at
    /\ max_2Dsize # None /\ vis_counts # None
    /\ \E i \in 1..num_points :
          Val(vis_counts)[i] >= 2 /\ Val(max_2Dsize)[i] = 3
    /\ \E j \in 1..num_points : Val(max_2Dsize)[j] = 0

\* C30: while step < stop_split_at, a split, duplicate or cull event that
\* follows an opacity reset (performed at a step with
\* step % interval = refine_every) comes at least num_train_data training
\* iterations after it, and never in the refinement call that resets.
C30_ResetGuard ==
    (ev.kind \in {"densify", "cull"} /\ ev.step < config.stop_split_at) =>
       /\ ~ev.reset
       /\ last_reset >= 0 =>
             /\ last_reset % (config.reset_alpha_every * config.refine_every)
                   = config.refine_every
             /\ ev.step - last_reset >= config.num_train_data

\* a densification after an opacity reset, with more than one training view
C30_Witness ==
    /\ ev.kind = "densify"
    /\ last_reset >= 0
    /\ last_reset < ev.step
    /\ config.num_train_data > config.refine_every
    /\ Len(ev.cat["means"]) > Len(ev.pre["means"])

\* C31: a refinement event that performs the opacity reset never also
\* splits, duplicates or culls, for every configuration with
\* num_train_data >= 0: the primitive count is unchanged across the event
\* and the zeroed opacity moments have the pre-event length N.
C31_ResetExclusive ==
    ev.reset =>
       /\ ev.kind = "nocull"
       /\ ev.culls = None
       /\ \A f \in FieldSet : Len(gauss_params[f]) = Len(ev.pre[f])
       /\ optimizers["opacities"].has_state =>
             /\ Len(optimizers["opacities"].exp_avg) = Len(ev.pre["opacities"])
             /\ Len(optimizers["opacities"].exp_avg_sq) = Len(ev.pre["opacities"])
             /\ \A i \in 1..Len(ev.pre["opacities"]) :
                   /\ optimizers["opacities"].exp_avg[i] = 0
                   /\ optimizers["opacities"].exp_avg_sq[i] = 0

\* an opacity reset with num_train_data = 0, on an opacity optimizer whose
\* moments were not all zero
C31_Witness ==
    /\ ev.reset
    /\ config.num_train_data = 0
    /\ ev.pre_optim["opacities"].has_state
    /\ \E i \in 1..Len(ev.pre["opacities"]) :
          ev.pre_optim["opacities"].exp_avg[i] # 0
    /\ num_points = Len(ev.pre["opacities"])

\* C32: whenever the visibility counter buffer is not None every entry is
\* at least 1, so the average gradient grad_sum / vis_count of the
\* densification decision never divides by zero, also for a primitive that
\* was never visible in the window.
C32_CountsPositive ==
    vis_counts # None => \A i \in 1..Len(Val(vis_counts)) : Val(vis_counts)[i] >= 1

\* a densification is about to be decided with a primitive that was never
\* visible in the window: no gradient, no screen size, counter 1
C32_Witness ==
    /\ pc = "refine"
    /\ step % config.refine_every = 0
    /\ step > config.warmup_length
    /\ step < config.stop_split_at
    /\ step % (config.reset_alpha_every * config.refine_every)
          > config.num_train_data + config.refine_every
    /\ vis_counts # None /\ xys_grad_norm # None /\ max_2Dsize # None
    /\ \E i \in 1..num_points :
          /\ Val(vis_counts)[i] = 1
          /\ Val(xys_grad_norm)[i] = 0
          /\ Val(max_2Dsize)[i] = 0

\* C33: whenever a refinement call decides to densify, the gradient-sum,
\* visibility-count and max-screen-size buffers are all non-None, for
\* refine_every = 1 as for larger periods: the statistics update of the same
\* iteration has run first.
C33_StatsAtDensify ==
    (pc = "refine"
       /\ step % config.refine_every = 0
       /\ step > config.warmup_length
       /\ step < config.stop_split_at
       /\ step % (config.reset_alpha_every * config.refine_every)
             > config.num_train_data + config.refine_every) =>
       /\ xys_grad_norm # None
       /\ vis_counts # None
       /\ max_2Dsize # None
       /\ Len(Val(xys_grad_norm)) = num_points
       /\ Len(Val(vis_counts)) = num_points
       /\ Len(Val(max_2Dsize)) = num_points

\* with refine_every = 1 a densification has been performed at a step whose
\* previous step cleared the statistics
C33_Witness ==
    /\ config.refine_every = 1
    /\ ev.kind = "densify"
    /\ ev.step >= 2
    /\ ev.step - 1 > config.warmup_length
    /\ ev.m2d # None
    /\ Len(ev.high_grads) = Len(ev.pre["means"])

\* C34: for every ordering of stop_split_at, stop_screen_size_at and
\* reset_alpha_every * refine_every, whenever cull_gaussians applies the
\* screen-size criterion (step past the reset interval and before
\* stop_screen_size_at) the max_2Dsize buffer is non-None, on the
\* densification path and on the post-stop cull path.
C34_ScreenSizeBuffer ==
    (pc = "refine"
       /\ step % config.refine_every = 0
       /\ step > config.warmup_length
       /\ \/ /\ step < config.stop_split_at
             /\ step % (config.reset_alpha_every * config.refine_every)
                   > config.num_train_data + config.refine_every
          \/ /\ step >= config.stop_split_at
             /\ config.continue_cull_post_densification
       /\ step > config.refine_every * config.reset_alpha_every
       /\ step < config.stop_screen_size_at) =>
       max_2Dsize # None

\* C35: after every refinement event, and so at every later optimizer step
\* of the training loop, the parameter registered in each of the six
\* optimizers is the store's current field object of its group, and the
\* optimizer state kept for it has the store's length: no optimizer is left
\* holding a replaced parameter.
C35_OptimizerHoldsLive ==
    \A f \in FieldSet :
       /\ optim_param[f] = <<f, param_gen>>
       /\ (optimizers[f].has_state /\ pc \in {"before", "render", "optim", "after"}) =>
             /\ Len(optimizers[f].exp_avg) = Len(gauss_params[f])
             /\ Len(optimizers[f].exp_avg_sq) = Len(gauss_params[f])

\* an optimizer step taken after the store's parameters were replaced by a
\* densification has moved the moments of an appended primitive
C35_Witness ==
    /\ pc = "after"
    /\ param_gen >= 2
    /\ num_points > NumSeed
    /\ \A f \in FieldSet :
          /\ optim_param[f] = <<f, param_gen>>
          /\ optimizers[f].has_state
          /\ Len(optimizers[f].exp_avg) = num_points
    /\ \E i \in (NumSeed + 1)..num_points : optimizers["means"].exp_avg[i] # 0

====
